---- MODULE Spec2Model ----
(***************************************************************************)
(* The staged build-regeneration driver of bootstrap/command.go:           *)
(* RunBlueprint as a sequential process (pc is its position in the         *)
(* function body), PrimaryBuilderExtraFlags, fatalf and fatalErrors.       *)
(*                                                                         *)
(* The dependency-graph engine (blueprint.Context), the Go runtime and the *)
(* file system are the environment: every call into them is one step whose *)
(* result (an error, a list of paths) is drawn from a small set.           *)
(* The paths given in Args are taken to name different files.              *)
(***************************************************************************)
EXTENDS Integers, Sequences, FiniteSets, TLC

\* ---------------------------------------------------------------- bounds
MaxDeps == 1        \* longest list of paths an engine phase reports
MaxErrs == 1        \* longest error batch an engine phase reports
MaxBatch == 2       \* longest error batch where the batches themselves are studied
ContentLen == 3     \* size of the serialized build graph, in chunks
BufSize == 2        \* capacity of the bufio.Writer, in chunks (16 MiB in the source)

Files == {"a.bp", "b.bp"}
ErrKinds == {"BlueprintError", "ModuleError", "PropertyError", "other"}

SeqsUpTo(S, n) == UNION {[1..k -> S] : k \in 0..n}

\* ------------------------------------------------------------ data types
\* filepath.Join("$buildDir", "build.ninja")
mainNinjaFile == "$buildDir/build.ninja"

\* A caller-supplied invocation, different from anything RunBlueprint builds.
CustomInvocation(n) ==
    [Inputs |-> <<"custom.in">>, Outputs |-> <<n>>, Args |-> <<"--custom", n>>]

\* Args.PrimaryBuilderInvocations: a Go slice is nil, or a (possibly empty) list.
NilSlice == [isNil |-> TRUE, list |-> <<>>]
Slice(l) == [isNil |-> FALSE, list |-> l]
InvocationSlices ==
    { NilSlice, Slice(<<>>), Slice(<<CustomInvocation("x.ninja")>>),
      Slice(<<CustomInvocation("y.ninja"), CustomInvocation("x.ninja")>>) }

\* The values config.(ConfigStopBefore) can give: the config does not implement
\* the interface ("none"), or StopBefore() returns one of the three selectors.
StopBeforePrepareBuildActions == "StopBeforePrepareBuildActions"
StopBeforeWriteNinja == "StopBeforeWriteNinja"
StopBefores == {"none", "DoEverything", StopBeforePrepareBuildActions, StopBeforeWriteNinja}

StageMain == "StageMain"
StagePrimary == "StagePrimary"

VARIABLES
    args,            \* the Args value RunBlueprint was called with
    ctx,             \* the *blueprint.Context: what the engine can report
    config,          \* the capabilities of the caller's config value
    pc,              \* position in RunBlueprint; "returned" / "exited" at the end
    stage,           \* local stage
    invocations,     \* local invocations
    bootstrapConfig, \* the *Config built at line 151 (NoConfig before)
    ninjaDeps,       \* local ninjaDeps
    blueprintFiles,  \* local blueprintFiles
    extraDeps,       \* local extraDeps
    errs,            \* local errs
    engineDeps,      \* history: what each engine phase returned
    res,             \* profile / trace sessions and their files
    defers,          \* the deferred calls of RunBlueprint, oldest first
    outFile,         \* the file at the output path
    f,               \* local f: "nil", "open" or "closed"
    buf,             \* local buf: -1 for nil, else the chunks buffered
    out,             \* local out: "unset", "buf" or "Discard"
    tree,            \* the files and directories in and around the build directory
    log,             \* history: every call with an effect outside the function
    stdout,          \* what fatalf / fatalErrors printed
    exitCode,        \* -1 while running, 0 after a return, 1 after os.Exit(1)
    ret,             \* the returned slice
    retAt            \* history: which return statement returned

vars == <<args, ctx, config, pc, stage, invocations, bootstrapConfig, ninjaDeps,
          blueprintFiles, extraDeps, errs, engineDeps, res, defers, outFile, f, buf,
          out, tree, log, stdout, exitCode, ret, retAt>>

exitVars == <<stdout, exitCode, ret, retAt>>
cfgVars == <<stage, invocations, bootstrapConfig>>
depVars == <<ninjaDeps, blueprintFiles, extraDeps, errs, engineDeps>>
diagVars == <<res, defers>>
outVars == <<outFile, f, buf, out>>
inVars == <<args, ctx, config>>

NoConfig == [stage |-> "unset"]

\* ------------------------------------------------------------------ inputs
ArgsOf(cpu, tr, mem, mlf, empty, gpb, glob, nogc, tests, dl, dp, pbi) ==
    [ OutFile |-> "out.ninja", GlobFile |-> glob, GlobListDir |-> "globs",
      Cpuprofile |-> cpu, Memprofile |-> mem, TraceFile |-> tr,
      DelveListen |-> dl, DelvePath |-> dp, RunGoTests |-> tests,
      UseValidations |-> FALSE, NoGC |-> nogc, EmptyNinjaFile |-> empty,
      ModuleListFile |-> mlf, TopFile |-> "Blueprints", Subninjas |-> <<>>,
      GeneratingPrimaryBuilder |-> gpb, PrimaryBuilderInvocations |-> pbi ]

\* Every combination of the options that steer the pipeline; the options that
\* only shape the synthesized invocation are varied in InitFlags.
PipelineArgs ==
    { ArgsOf(cpu, tr, mem, mlf, empty, gpb, glob, FALSE, FALSE, "", "", NilSlice) :
        cpu \in {"", "cpu.prof"}, tr \in {"", "trace.out"}, mem \in {"", "mem.prof"},
        mlf \in {"", "modules.list"}, empty \in BOOLEAN, gpb \in BOOLEAN,
        glob \in {"", "globs.ninja"} }

\* Every combination of the options that shape the invocation list.
FlagArgs ==
    { ArgsOf("", "", "", "modules.list", empty, gpb, "", nogc, tests, dl, dp, pbi) :
        empty \in BOOLEAN, gpb \in BOOLEAN, nogc \in BOOLEAN, tests \in BOOLEAN,
        dl \in {"", ":2345"}, dp \in {"", "/usr/bin/dlv"}, pbi \in InvocationSlices }

\* Paths are sequences of names; a path lies beneath a directory when the
\* directory's path is a proper prefix of it.
BuildDir == <<"out">>
KeepDir == <<"out", "keep">>
GenDir == <<"out", "gen">>
OldDir == <<"out", "old">>
SrcDir == <<"src">>
NoDir == <<>>

File(p) == [path |-> p, dir |-> FALSE]
Dir(p) == [path |-> p, dir |-> TRUE]

FileA == File(<<"out", "A">>)
FileB == File(<<"out", "B">>)
FileC == File(<<"out", "keep", "C">>)
FileD == File(<<"out", "gen", "D">>)
FileE == File(<<"src", "E">>)

FixedDirs == {Dir(BuildDir), Dir(KeepDir), Dir(GenDir), Dir(SrcDir)}

\* The build directory of the example: A is a declared output, B is not,
\* C is not and lies in the excepted directory.
ExampleTree == FixedDirs \cup {FileA, FileB, FileC}
ExampleTargets == {FileA.path}

\* The build directories studied: B is always there, every other entry may be.
Trees == {FixedDirs \cup {FileB} \cup t : t \in SUBSET {FileA, FileC, FileD, FileE, Dir(OldDir)}}
TargetSets == SUBSET {FileA.path, FileB.path, FileC.path, FileD.path}

\* config.(ConfigStopBefore) and config.(ConfigRemoveAbandonedFilesUnder):
\* removeAbandoned says whether the config implements the second interface,
\* under and except are what its RemoveAbandonedFilesUnder returns.
Configs ==
    [stopBefore : StopBefores, removeAbandoned : BOOLEAN, under : {NoDir}, except : {{KeepDir}}]

ReapConfigs ==
    [stopBefore : {"none"}, removeAbandoned : BOOLEAN,
     under : {NoDir, GenDir, SrcDir}, except : SUBSET {KeepDir, GenDir}]

\* A context whose phases report at most d paths and at most e errors, and
\* whose build graph declares the outputs t.
Context(d, e, t) == [maxDeps |-> d, maxErrs |-> e, targets |-> t]

StartState(a, c, x, t) ==
    /\ args = a
    /\ ctx = x
    /\ config = c
    /\ tree = t
    /\ pc = "start"
    /\ stage = "unset"
    /\ invocations = NilSlice
    /\ bootstrapConfig = NoConfig
    /\ ninjaDeps = <<>>
    /\ blueprintFiles = <<>>
    /\ extraDeps = <<>>
    /\ errs = <<>>
    /\ engineDeps = [parse |-> <<>>, resolve |-> <<>>, prepare |-> <<>>]
    /\ res = [cpuProf |-> "off", cpuFile |-> "none", tracing |-> "off",
              traceFile |-> "none", memFile |-> "none", gc |-> "on", heapProfiles |-> 0]
    /\ defers = <<>>
    /\ outFile = [kind |-> "pre", len |-> 0]
    /\ f = "nil"
    /\ buf = -1
    /\ out = "unset"
    /\ log = <<>>
    /\ stdout = <<>>
    /\ exitCode = -1
    /\ ret = <<>>
    /\ retAt = "none"

Init ==
    \E a \in PipelineArgs, c \in Configs :
       StartState(a, c, Context(MaxDeps, MaxErrs, ExampleTargets), ExampleTree)

InitFlags ==
    \E a \in FlagArgs :
       StartState(a, [stopBefore |-> "none", removeAbandoned |-> FALSE,
                      under |-> NoDir, except |-> {KeepDir}],
                  Context(MaxDeps, MaxErrs, ExampleTargets), ExampleTree)

\* One set of options, and a context whose phases report longer error batches.
InitErrors ==
    \E empty \in BOOLEAN, c \in Configs :
       StartState(ArgsOf("", "", "", "modules.list", empty, FALSE, "", FALSE, FALSE,
                         "", "", NilSlice),
                  c, Context(MaxDeps, MaxBatch, ExampleTargets), ExampleTree)

\* One set of options, a context that reports nothing, and every build
\* directory, set of declared outputs and abandoned-files policy.
InitReap ==
    \E c \in ReapConfigs, ts \in TargetSets, t \in Trees :
       StartState(ArgsOf("", "", "", "modules.list", FALSE, FALSE, "", FALSE, FALSE,
                         "", "", NilSlice),
                  c, Context(0, 0, ts), t)

\* ------------------------------------------------------- leaving the function
\* fatalf: print the message, os.Exit(1). Deferred calls do not run.
fatalf(msg) ==
    /\ stdout' = Append(stdout, [prefix |-> "", text |-> msg])
    /\ exitCode' = 1
    /\ pc' = "exited"
    /\ UNCHANGED <<ret, retAt>>

ErrorPrefix(kind) ==
    IF kind \in {"BlueprintError", "ModuleError", "PropertyError"}
    THEN "error:" ELSE "internal error:"

\* A fatalErrors that reports the first error of the batch only.
fatalErrors_FirstOnly(batch) ==
    /\ stdout' = Append(stdout, [prefix |-> ErrorPrefix(batch[1]), text |-> batch[1]])
    /\ exitCode' = 1
    /\ pc' = "exited"
    /\ UNCHANGED <<ret, retAt>>

\* fatalErrors: print every error of the batch, os.Exit(1).
fatalErrors(batch) ==
    /\ stdout' = stdout \o [i \in 1..Len(batch) |->
                                [prefix |-> ErrorPrefix(batch[i]), text |-> batch[i]]]
    /\ exitCode' = 1
    /\ pc' = "exited"
    /\ UNCHANGED <<ret, retAt>>

Reverse(s) == [i \in 1..Len(s) |-> s[Len(s) + 1 - i]]

ApplyDeferred(d, r) ==
    CASE d = "pprof.StopCPUProfile" -> [r EXCEPT !.cpuProf = "stopped"]
      [] d = "cpuprofile.Close" -> [r EXCEPT !.cpuFile = "closed"]
      [] d = "trace.Stop" -> [r EXCEPT !.tracing = "stopped"]
      [] d = "tracefile.Close" -> [r EXCEPT !.traceFile = "closed"]
      [] d = "memprofile.Close" -> [r EXCEPT !.memFile = "closed"]

RECURSIVE RunDeferred(_, _)
RunDeferred(ds, r) ==
    IF ds = <<>> THEN r
    ELSE RunDeferred(SubSeq(ds, 1, Len(ds) - 1), ApplyDeferred(ds[Len(ds)], r))

\* A return statement: the deferred calls run last-in first-out, then the
\* caller receives ninjaDeps.
Return(at, lg, ds, r) ==
    /\ ret' = ninjaDeps
    /\ retAt' = at
    /\ exitCode' = 0
    /\ pc' = "returned"
    /\ log' = lg \o Reverse(ds)
    /\ res' = RunDeferred(ds, r)
    /\ defers' = <<>>
    /\ UNCHANGED stdout

Goto(l) == pc' = l /\ UNCHANGED exitVars

\* ------------------------------------------------------------ RunBlueprint
\* lines 86-90
SetupRuntime ==
    /\ pc = "start"
    /\ log' = log \o <<"runtime.GOMAXPROCS">>
                  \o (IF args.NoGC THEN <<"debug.SetGCPercent">> ELSE <<>>)
    /\ res' = IF args.NoGC THEN [res EXCEPT !.gc = "off"] ELSE res
    /\ Goto("cpuprofile")
    /\ UNCHANGED <<inVars, tree, cfgVars, depVars, defers, outVars>>

\* lines 92-100
StartCpuProfile ==
    /\ pc = "cpuprofile"
    /\ IF args.Cpuprofile # ""
       THEN \E ok \in BOOLEAN :
              IF ok
              THEN /\ log' = log \o <<"os.Create cpuprofile", "pprof.StartCPUProfile">>
                   /\ res' = [res EXCEPT !.cpuFile = "open", !.cpuProf = "on"]
                   /\ defers' = defers \o <<"cpuprofile.Close", "pprof.StopCPUProfile">>
                   /\ Goto("trace")
              ELSE /\ fatalf("error opening cpuprofile")
                   /\ UNCHANGED <<log, diagVars>>
       ELSE /\ Goto("trace")
            /\ UNCHANGED <<log, diagVars>>
    /\ UNCHANGED <<inVars, tree, cfgVars, depVars, outVars>>

\* lines 102-110
StartTrace ==
    /\ pc = "trace"
    /\ IF args.TraceFile # ""
       THEN \E ok \in BOOLEAN :
              IF ok
              THEN /\ log' = log \o <<"os.Create tracefile", "trace.Start">>
                   /\ res' = [res EXCEPT !.traceFile = "open", !.tracing = "on"]
                   /\ defers' = defers \o <<"tracefile.Close", "trace.Stop">>
                   /\ Goto("modulelist")
              ELSE /\ fatalf("error opening trace")
                   /\ UNCHANGED <<log, diagVars>>
       ELSE /\ Goto("modulelist")
            /\ UNCHANGED <<log, diagVars>>
    /\ UNCHANGED <<inVars, tree, cfgVars, depVars, outVars>>

\* SetModuleListFile without the else branch: an empty path is passed on.
SetModuleListFile_Unchecked ==
    /\ pc = "modulelist"
    /\ log' = Append(log, "ctx.SetModuleListFile")
    /\ ninjaDeps' = Append(ninjaDeps, args.ModuleListFile)
    /\ Goto("enumerate")
    /\ UNCHANGED <<inVars, tree, cfgVars, blueprintFiles, extraDeps, errs, engineDeps, diagVars, outVars>>

\* lines 112-121
SetModuleListFile ==
    /\ pc = "modulelist"
    /\ IF args.ModuleListFile # ""
       THEN /\ log' = Append(log, "ctx.SetModuleListFile")
            /\ ninjaDeps' = Append(ninjaDeps, args.ModuleListFile)
            /\ Goto("enumerate")
       ELSE /\ fatalf("-l <moduleListFile> is required and must be nonempty")
            /\ UNCHANGED <<log, ninjaDeps>>
    /\ UNCHANGED <<inVars, tree, cfgVars, blueprintFiles, extraDeps, errs, engineDeps, diagVars, outVars>>

\* lines 122-125
ListModulePaths ==
    /\ pc = "enumerate"
    /\ log' = Append(log, "ctx.ListModulePaths")
    /\ \E ok \in BOOLEAN :
         IF ok THEN Goto("assemble") ELSE fatalf("could not enumerate files")
    /\ UNCHANGED <<inVars, tree, cfgVars, depVars, diagVars, outVars>>

\* PrimaryBuilderExtraFlags with the two debugger segments in the other order.
PrimaryBuilderExtraFlags_DelveSwapped(a, ninjaFile) ==
    LET r0 == <<>>
        r1 == IF a.RunGoTests THEN Append(r0, "-t") ELSE r0
        r2 == r1 \o <<"-l", a.ModuleListFile>>
        r3 == r2 \o <<"-o", ninjaFile>>
        r4 == IF a.EmptyNinjaFile THEN Append(r3, "--empty-ninja-file") ELSE r3
        r5 == IF a.DelvePath # "" THEN r4 \o <<"--delve_path", a.DelvePath>> ELSE r4
        r6 == IF a.DelveListen # "" THEN r5 \o <<"--delve_listen", a.DelveListen>> ELSE r5
    IN  r6

\* lines 57-80
PrimaryBuilderExtraFlags(a, ninjaFile) ==
    LET r0 == <<>>
        r1 == IF a.RunGoTests THEN Append(r0, "-t") ELSE r0
        r2 == r1 \o <<"-l", a.ModuleListFile>>
        r3 == r2 \o <<"-o", ninjaFile>>
        r4 == IF a.EmptyNinjaFile THEN Append(r3, "--empty-ninja-file") ELSE r3
        r5 == IF a.DelveListen # "" THEN r4 \o <<"--delve_listen", a.DelveListen>> ELSE r4
        r6 == IF a.DelvePath # "" THEN r5 \o <<"--delve_path", a.DelvePath>> ELSE r5
    IN  r6

\* lines 129-132
StageOf(a) == IF a.GeneratingPrimaryBuilder THEN StagePrimary ELSE StageMain

\* An assembler that takes the caller's list only when it has descriptors.
InvocationsOf_LenCheck(a) ==
    IF Len(a.PrimaryBuilderInvocations.list) > 0
    THEN a.PrimaryBuilderInvocations
    ELSE LET primaryBuilderArgs == Append(PrimaryBuilderExtraFlags(a, mainNinjaFile), a.TopFile)
         IN  Slice(<< [Inputs |-> <<a.TopFile>>,
                       Outputs |-> <<mainNinjaFile>>,
                       Args |-> primaryBuilderArgs] >>)

\* lines 136-149
InvocationsOf(a) ==
    IF ~a.PrimaryBuilderInvocations.isNil
    THEN a.PrimaryBuilderInvocations
    ELSE LET primaryBuilderArgs == Append(PrimaryBuilderExtraFlags(a, mainNinjaFile), a.TopFile)
         IN  Slice(<< [Inputs |-> <<a.TopFile>>,
                       Outputs |-> <<mainNinjaFile>>,
                       Args |-> primaryBuilderArgs] >>)

\* lines 127-160
AssembleConfig ==
    /\ pc = "assemble"
    /\ stage' = StageOf(args)
    /\ invocations' = InvocationsOf(args)
    /\ bootstrapConfig' =
         [ stage |-> stage',
           topLevelBlueprintsFile |-> args.TopFile,
           subninjas |-> args.Subninjas,
           globListDir |-> args.GlobListDir,
           runGoTests |-> args.RunGoTests,
           useValidations |-> args.UseValidations,
           primaryBuilderInvocations |-> invocations' ]
    /\ Goto("register")
    /\ UNCHANGED <<inVars, tree, depVars, diagVars, outVars, log>>

Registrations ==
    << "ctx.RegisterBottomUpMutator bootstrap_plugin_deps",
       "ctx.RegisterModuleType bootstrap_go_package",
       "ctx.RegisterModuleType bootstrap_go_binary",
       "ctx.RegisterModuleType blueprint_go_binary",
       "ctx.RegisterSingletonType bootstrap",
       "ctx.RegisterSingletonType glob" >>

\* lines 162-168
Register ==
    /\ pc = "register"
    /\ log' = log \o Registrations
    /\ Goto("parse")
    /\ UNCHANGED <<inVars, tree, cfgVars, depVars, diagVars, outVars>>

\* What an engine phase gives back: a list of paths and an error batch. The
\* paths that come with a non-empty batch are never read, and are left out.
ErrBatches(n) == SeqsUpTo(ErrKinds, n) \ {<<>>}
PhaseResults(x) ==
    {[deps |-> d, errs |-> <<>>] : d \in SeqsUpTo(Files, x.maxDeps)}
      \cup {[deps |-> <<>>, errs |-> e] : e \in ErrBatches(x.maxErrs)}

\* An append that skips the paths already in the list.
AppendDeps_Dedup(deps, more) ==
    deps \o SelectSeq(more, LAMBDA p : \A i \in 1..Len(deps) : deps[i] # p)

\* ninjaDeps = append(ninjaDeps, more...)
AppendDeps(deps, more) == deps \o more

\* ParseFileList without lines 171-173: the run goes on after a parse error.
ParseFileList_IgnoresErrors ==
    /\ pc = "parse"
    /\ log' = Append(log, "ctx.ParseFileList")
    /\ \E r \in PhaseResults(ctx) :
         /\ blueprintFiles' = r.deps
         /\ errs' = r.errs
         /\ engineDeps' = [engineDeps EXCEPT !.parse = r.deps]
         /\ ninjaDeps' = AppendDeps(ninjaDeps, r.deps)
         /\ Goto("resolve")
    /\ UNCHANGED <<inVars, tree, cfgVars, extraDeps, diagVars, outVars>>

\* lines 170-176
ParseFileList ==
    /\ pc = "parse"
    /\ log' = Append(log, "ctx.ParseFileList")
    /\ \E r \in PhaseResults(ctx) :
         /\ blueprintFiles' = r.deps
         /\ errs' = r.errs
         /\ engineDeps' = [engineDeps EXCEPT !.parse = r.deps]
         /\ IF Len(r.errs) > 0
            THEN /\ fatalErrors(r.errs)
                 /\ UNCHANGED ninjaDeps
            ELSE /\ ninjaDeps' = AppendDeps(ninjaDeps, r.deps)
                 /\ Goto("resolve")
    /\ UNCHANGED <<inVars, tree, cfgVars, extraDeps, diagVars, outVars>>

\* ResolveDependencies without line 182: its extra paths are not appended.
ResolveDependencies_DropsExtraDeps ==
    /\ pc = "resolve"
    /\ log' = Append(log, "ctx.ResolveDependencies")
    /\ \E r \in PhaseResults(ctx) :
         /\ extraDeps' = r.deps
         /\ errs' = r.errs
         /\ engineDeps' = [engineDeps EXCEPT !.resolve = r.deps]
         /\ IF Len(r.errs) > 0 THEN fatalErrors(r.errs) ELSE Goto("checkpointA")
         /\ UNCHANGED ninjaDeps
    /\ UNCHANGED <<inVars, tree, cfgVars, blueprintFiles, diagVars, outVars>>

\* lines 178-182
ResolveDependencies ==
    /\ pc = "resolve"
    /\ log' = Append(log, "ctx.ResolveDependencies")
    /\ \E r \in PhaseResults(ctx) :
         /\ extraDeps' = r.deps
         /\ errs' = r.errs
         /\ engineDeps' = [engineDeps EXCEPT !.resolve = r.deps]
         /\ IF Len(r.errs) > 0
            THEN /\ fatalErrors(r.errs)
                 /\ UNCHANGED ninjaDeps
            ELSE /\ ninjaDeps' = AppendDeps(ninjaDeps, r.deps)
                 /\ Goto("checkpointA")
    /\ UNCHANGED <<inVars, tree, cfgVars, blueprintFiles, diagVars, outVars>>

\* config.(ConfigStopBefore) succeeded and StopBefore() returned `which`
StopsBefore(c, which) == c.stopBefore # "none" /\ c.stopBefore = which

\* CheckpointA comparing with the selector of Checkpoint B.
CheckpointA_WrongSelector ==
    /\ pc = "checkpointA"
    /\ IF StopsBefore(config, StopBeforeWriteNinja)
       THEN Return("A", log, defers, res)
       ELSE /\ Goto("prepare")
            /\ UNCHANGED <<log, diagVars>>
    /\ UNCHANGED <<inVars, tree, cfgVars, depVars, outVars>>

\* lines 184-188
CheckpointA ==
    /\ pc = "checkpointA"
    /\ IF StopsBefore(config, StopBeforePrepareBuildActions)
       THEN Return("A", log, defers, res)
       ELSE /\ Goto("prepare")
            /\ UNCHANGED <<log, diagVars>>
    /\ UNCHANGED <<inVars, tree, cfgVars, depVars, outVars>>

\* lines 190-194
PrepareBuildActions ==
    /\ pc = "prepare"
    /\ log' = Append(log, "ctx.PrepareBuildActions")
    /\ \E r \in PhaseResults(ctx) :
         /\ extraDeps' = r.deps
         /\ errs' = r.errs
         /\ engineDeps' = [engineDeps EXCEPT !.prepare = r.deps]
         /\ IF Len(r.errs) > 0
            THEN /\ fatalErrors(r.errs)
                 /\ UNCHANGED ninjaDeps
            ELSE /\ ninjaDeps' = AppendDeps(ninjaDeps, r.deps)
                 /\ Goto("checkpointB")
    /\ UNCHANGED <<inVars, tree, cfgVars, blueprintFiles, diagVars, outVars>>

\* lines 196-200
CheckpointB ==
    /\ pc = "checkpointB"
    /\ IF StopsBefore(config, StopBeforeWriteNinja)
       THEN Return("B", log, defers, res)
       ELSE /\ Goto("placeholder")
            /\ UNCHANGED <<log, diagVars>>
    /\ UNCHANGED <<inVars, tree, cfgVars, depVars, outVars>>

\* lines 207-211. ioutil.WriteFile creates or truncates the file, writes
\* nothing and closes it; when it fails the file may or may not have been
\* created or truncated already.
WritePlaceholder ==
    /\ pc = "placeholder"
    /\ IF args.EmptyNinjaFile
       THEN \E r \in {"ok", "failed before create", "failed after create"} :
              /\ log' = Append(log, "ioutil.WriteFile out")
              /\ outFile' = IF r = "failed before create" THEN outFile
                            ELSE [kind |-> "new", len |-> 0]
              /\ IF r = "ok" THEN Goto("open")
                 ELSE fatalf("error writing empty Ninja file")
       ELSE /\ Goto("open")
            /\ UNCHANGED <<log, outFile>>
    /\ UNCHANGED <<inVars, tree, cfgVars, depVars, diagVars, f, buf, out>>

\* The condition of line 213 with the negation of the toggle lost.
FullGeneration_ToggleInverted(st, a) == st # StageMain \/ a.EmptyNinjaFile

\* The condition of line 213 without the stage.
FullGeneration_IgnoresStage(st, a) == ~a.EmptyNinjaFile

\* line 213
FullGeneration(st, a) == st # StageMain \/ ~a.EmptyNinjaFile

\* lines 213-222. O_CREATE|O_TRUNC leaves a zero-length file behind.
OpenOutput ==
    /\ pc = "open"
    /\ IF FullGeneration(stage, args)
       THEN \E ok \in BOOLEAN :
              /\ log' = Append(log, "os.OpenFile out")
              /\ IF ok
                 THEN /\ outFile' = [kind |-> "new", len |-> 0]
                      /\ f' = "open"
                      /\ buf' = 0
                      /\ out' = "buf"
                      /\ Goto("globs")
                 ELSE /\ fatalf("error opening Ninja file")
                      /\ UNCHANGED outVars
       ELSE /\ out' = "Discard"
            /\ Goto("globs")
            /\ UNCHANGED <<log, outFile, f, buf>>
    /\ UNCHANGED <<inVars, tree, cfgVars, depVars, diagVars>>

\* A driver that writes the glob file only next to a fully generated output.
WriteGlobs_OnlyWhenGenerating ==
    /\ pc = "globs"
    /\ log' = IF args.GlobFile # "" /\ out = "buf"
              THEN Append(log, "WriteBuildGlobsNinjaFile") ELSE log
    /\ Goto("write")
    /\ UNCHANGED <<inVars, tree, cfgVars, depVars, diagVars, outVars>>

\* lines 224-226. The glob file is another file than the output path.
WriteGlobs ==
    /\ pc = "globs"
    /\ log' = IF args.GlobFile # "" THEN Append(log, "WriteBuildGlobsNinjaFile") ELSE log
    /\ Goto("write")
    /\ UNCHANGED <<inVars, tree, cfgVars, depVars, diagVars, outVars>>

\* bufio.Writer.WriteString, one chunk at a time: a chunk that finds the
\* buffer full flushes it to the file first. After k chunks this much has
\* reached the file.
FlushedAfter(k) == IF k = 0 THEN 0 ELSE BufSize * ((k - 1) \div BufSize)

\* A driver that does not call the engine when the sink is ioutil.Discard.
WriteBuildFile_SkippedOnDiscard ==
    /\ pc = "write"
    /\ IF out = "buf"
       THEN /\ log' = Append(log, "ctx.WriteBuildFile")
            /\ \E k \in 0..ContentLen, ok \in BOOLEAN :
                 /\ ok => k = ContentLen
                 /\ outFile' = [outFile EXCEPT !.len = FlushedAfter(k)]
                 /\ buf' = k - FlushedAfter(k)
                 /\ IF ok THEN Goto("flush")
                    ELSE fatalf("error writing Ninja file contents")
       ELSE /\ Goto("flush")
            /\ UNCHANGED <<log, outFile, buf>>
    /\ UNCHANGED <<inVars, tree, cfgVars, depVars, diagVars, f, out>>

\* lines 228-231. The engine serializes ContentLen chunks into `out`; an error
\* stops it after any number of them.
WriteBuildFile ==
    /\ pc = "write"
    /\ log' = Append(log, "ctx.WriteBuildFile")
    /\ \E k \in 0..ContentLen, ok \in BOOLEAN :
         /\ ok => k = ContentLen
         /\ IF out = "buf"
            THEN /\ outFile' = [outFile EXCEPT !.len = FlushedAfter(k)]
                 /\ buf' = k - FlushedAfter(k)
            ELSE UNCHANGED <<outFile, buf>>
         /\ IF ok THEN Goto("flush")
            ELSE fatalf("error writing Ninja file contents")
    /\ UNCHANGED <<inVars, tree, cfgVars, depVars, diagVars, f, out>>

\* Flush with the error of buf.Flush() unchecked.
Flush_ContinuesOnError ==
    /\ pc = "flush"
    /\ IF buf # -1
       THEN \E ok \in BOOLEAN :
              /\ log' = Append(log, "buf.Flush")
              /\ IF ok
                 THEN /\ outFile' = [outFile EXCEPT !.len = outFile.len + buf]
                      /\ buf' = 0
                 ELSE UNCHANGED <<outFile, buf>>
              /\ Goto("close")
       ELSE /\ Goto("close")
            /\ UNCHANGED <<log, outFile, buf>>
    /\ UNCHANGED <<inVars, tree, cfgVars, depVars, diagVars, f, out>>

\* lines 233-238
Flush ==
    /\ pc = "flush"
    /\ IF buf # -1
       THEN \E ok \in BOOLEAN :
              /\ log' = Append(log, "buf.Flush")
              /\ IF ok
                 THEN /\ outFile' = [outFile EXCEPT !.len = outFile.len + buf]
                      /\ buf' = 0
                      /\ Goto("close")
                 ELSE /\ fatalf("error flushing Ninja file contents")
                      /\ UNCHANGED <<outFile, buf>>
       ELSE /\ Goto("close")
            /\ UNCHANGED <<log, outFile, buf>>
    /\ UNCHANGED <<inVars, tree, cfgVars, depVars, diagVars, f, out>>

\* A driver without lines 240-245: the file is never closed.
Close_Skipped ==
    /\ pc = "close"
    /\ Goto("reap")
    /\ UNCHANGED <<log, f>>
    /\ UNCHANGED <<inVars, tree, cfgVars, depVars, diagVars, outFile, buf, out>>

\* lines 240-245
Close ==
    /\ pc = "close"
    /\ IF f # "nil"
       THEN \E ok \in BOOLEAN :
              /\ log' = Append(log, "f.Close")
              /\ f' = "closed"
              /\ IF ok THEN Goto("reap") ELSE fatalf("error closing Ninja file")
       ELSE /\ Goto("reap")
            /\ UNCHANGED <<log, f>>
    /\ UNCHANGED <<inVars, tree, cfgVars, depVars, diagVars, outFile, buf, out>>

\* The reaper. The output path is taken to be a declared output.
\* p lies beneath the directory d
Beneath(p, d) == Len(d) < Len(p) /\ SubSeq(p, 1, Len(d)) = d

\* removeAbandonedFilesUnder: the entries of t a complete pass deletes
Abandoned(t, targets, buildDir, under, except) ==
    {e \in t : /\ ~e.dir
               /\ Beneath(e.path, buildDir)
               /\ e.path \notin targets
               /\ Beneath(e.path, IF under = NoDir THEN buildDir ELSE under)
               /\ \A x \in except : ~Beneath(e.path, x)}

\* removeAbandonedFilesUnder: a pass that completes (r.err = FALSE) has
\* deleted every abandoned file; a pass that fails has deleted some of them.
removeAbandonedFilesUnder(t, targets, buildDir, under, except) ==
    LET gone == Abandoned(t, targets, buildDir, under, except)
    IN  {[tree |-> t \ gone, err |-> FALSE]}
          \cup {[tree |-> t \ done, err |-> TRUE] : done \in SUBSET gone}

\* A driver that reaps whether or not the config exposes the policy.
Reap_Unconditional ==
    /\ pc = "reap"
    /\ \E r \in removeAbandonedFilesUnder(tree, ctx.targets, BuildDir,
                                            config.under, config.except) :
         /\ log' = Append(log, "removeAbandonedFilesUnder")
         /\ tree' = r.tree
         /\ IF r.err THEN fatalf("error removing abandoned files")
            ELSE Goto("memprofile")
    /\ UNCHANGED <<inVars, cfgVars, depVars, diagVars, outVars>>

\* lines 247-253
Reap ==
    /\ pc = "reap"
    /\ IF config.removeAbandoned
       THEN \E r \in removeAbandonedFilesUnder(tree, ctx.targets, BuildDir,
                                               config.under, config.except) :
              /\ log' = Append(log, "removeAbandonedFilesUnder")
              /\ tree' = r.tree
              /\ IF r.err THEN fatalf("error removing abandoned files")
                 ELSE Goto("memprofile")
       ELSE /\ Goto("memprofile")
            /\ UNCHANGED <<log, tree>>
    /\ UNCHANGED <<inVars, cfgVars, depVars, diagVars, outVars>>

\* A driver that writes the heap profile whether or not a path is set.
WriteMemProfile_Always ==
    /\ pc = "memprofile"
    /\ \E ok \in BOOLEAN :
         IF ok
         THEN /\ log' = log \o <<"os.Create memprofile", "pprof.WriteHeapProfile">>
              /\ res' = [res EXCEPT !.memFile = "open",
                                    !.heapProfiles = res.heapProfiles + 1]
              /\ defers' = Append(defers, "memprofile.Close")
              /\ Goto("return")
         ELSE /\ fatalf("error opening memprofile")
              /\ UNCHANGED <<log, diagVars>>
    /\ UNCHANGED <<inVars, tree, cfgVars, depVars, outVars>>

\* lines 255-262
WriteMemProfile ==
    /\ pc = "memprofile"
    /\ IF args.Memprofile # ""
       THEN \E ok \in BOOLEAN :
              IF ok
              THEN /\ log' = log \o <<"os.Create memprofile", "pprof.WriteHeapProfile">>
                   /\ res' = [res EXCEPT !.memFile = "open",
                                         !.heapProfiles = res.heapProfiles + 1]
                   /\ defers' = Append(defers, "memprofile.Close")
                   /\ Goto("return")
              ELSE /\ fatalf("error opening memprofile")
                   /\ UNCHANGED <<log, diagVars>>
       ELSE /\ Goto("return")
            /\ UNCHANGED <<log, diagVars>>
    /\ UNCHANGED <<inVars, tree, cfgVars, depVars, outVars>>

\* line 264
ReturnDeps ==
    /\ pc = "return"
    /\ Return("end", log, defers, res)
    /\ UNCHANGED <<inVars, tree, cfgVars, depVars, outVars>>

Next ==
    \/ SetupRuntime
    \/ StartCpuProfile
    \/ StartTrace
    \/ SetModuleListFile
    \/ ListModulePaths
    \/ AssembleConfig
    \/ Register
    \/ ParseFileList
    \/ ResolveDependencies
    \/ CheckpointA
    \/ PrepareBuildActions
    \/ CheckpointB
    \/ WritePlaceholder
    \/ OpenOutput
    \/ WriteGlobs
    \/ WriteBuildFile
    \/ Flush
    \/ Close
    \/ Reap
    \/ WriteMemProfile
    \/ ReturnDeps

Spec == Init /\ [][Next]_vars

\* The same driver, started with every combination of the invocation options.
SpecFlags == InitFlags /\ [][Next]_vars

\* The same driver, with a context that reports longer error batches.
SpecErrors == InitErrors /\ [][Next]_vars

\* The same driver, over every build directory and abandoned-files policy.
SpecReap == InitReap /\ [][Next]_vars

\* ================================================================ properties
Has(e) == \E i \in 1..Len(log) : log[i] = e
Count(e) == Len(SelectSeq(log, LAMBDA x : x = e))
Before(e1, e2) ==
    \E j \in 1..Len(log) : log[j] = e2 /\ \E i \in 1..(j - 1) : log[i] = e1
IsPrefix(s, t) == Len(s) <= Len(t) /\ SubSeq(t, 1, Len(s)) = s
LastMessage == stdout[Len(stdout)].text

EngineEvents ==
    { "ctx.SetModuleListFile", "ctx.ListModulePaths", "ctx.ParseFileList",
      "ctx.ResolveDependencies", "ctx.PrepareBuildActions", "ctx.WriteBuildFile" }
RegistrationEvents == {Registrations[i] : i \in 1..Len(Registrations)}
ProfileStartEvents ==
    {"os.Create cpuprofile", "pprof.StartCPUProfile", "os.Create tracefile", "trace.Start"}
\* everything RunBlueprint does after Checkpoint B, up to the return
EmitEvents ==
    { "ioutil.WriteFile out", "os.OpenFile out", "WriteBuildGlobsNinjaFile",
      "ctx.WriteBuildFile", "buf.Flush", "f.Close", "removeAbandonedFilesUnder",
      "os.Create memprofile", "pprof.WriteHeapProfile" }
FileEvents ==
    {"os.Create cpuprofile", "os.Create tracefile"} \cup (EmitEvents \ {"ctx.WriteBuildFile"})

\* ---------------------------------------------------------------------- C1
\* C1 as stated: with an empty ModuleListFile the run never returns, and when
\* it has died nothing has created, read or written a file or called the
\* engine, whatever the other options are.
C1_NoFileBeforeFatal ==
    args.ModuleListFile = "" =>
        /\ pc # "returned"
        /\ pc = "exited" =>
             \A i \in 1..Len(log) :
                log[i] \notin FileEvents \cup EngineEvents \cup RegistrationEvents

\* C1 amended: with an empty ModuleListFile the run never gets past the
\* module-list check and ends only by os.Exit(1); no engine phase or
\* registration runs and the output path is untouched; the only files it can
\* have created are the CPU-profile and trace files, whose sessions are
\* started before the check.
C1_FatalBeforePipeline ==
    args.ModuleListFile = "" =>
        /\ pc \in {"start", "cpuprofile", "trace", "modulelist", "exited"}
        /\ pc = "exited" => exitCode = 1 /\ Len(stdout) = 1
        /\ pc # "exited" => exitCode = -1
        /\ \A i \in 1..Len(log) :
             log[i] \in {"runtime.GOMAXPROCS", "debug.SetGCPercent"} \cup ProfileStartEvents
        /\ outFile.kind = "pre" /\ f = "nil" /\ ninjaDeps = <<>>

C1_Witness ==
    /\ args.ModuleListFile = ""
    /\ pc = "exited"
    /\ LastMessage = "-l <moduleListFile> is required and must be nonempty"
    /\ Has("os.Create cpuprofile")
    /\ Has("os.Create tracefile")

\* ---------------------------------------------------------------------- C2
\* C2: when the process has ended, by a return or by os.Exit, no profile or
\* trace session is still running and no profile or trace file is still open;
\* and each session was started at most once.
C2_SessionsReleased ==
    /\ Count("pprof.StartCPUProfile") <= 1
    /\ Count("trace.Start") <= 1
    /\ pc \in {"returned", "exited"} =>
         /\ res.cpuProf # "on" /\ res.cpuFile # "open"
         /\ res.tracing # "on" /\ res.traceFile # "open"

\* ---------------------------------------------------------------------- C3
\* C3: a run told to stop before PrepareBuildActions never calls it, and a
\* run told to stop there or before writing Ninja never does anything of the
\* emission phase: no placeholder, no open, no glob file, no WriteBuildFile,
\* no flush or close, no reaper, no heap profile; and it returns at that
\* checkpoint.
C3_NothingBeyondCheckpoint ==
    /\ config.stopBefore = StopBeforePrepareBuildActions =>
         /\ ~Has("ctx.PrepareBuildActions")
         /\ retAt \in {"none", "A"}
    /\ config.stopBefore = StopBeforeWriteNinja => retAt \in {"none", "B"}
    /\ config.stopBefore \in {StopBeforePrepareBuildActions, StopBeforeWriteNinja} =>
         /\ \A i \in 1..Len(log) : log[i] \notin EmitEvents
         /\ outFile.kind = "pre" /\ f = "nil" /\ buf = -1 /\ out = "unset"
         /\ res.heapProfiles = 0 /\ res.memFile = "none"
    /\ retAt = "A" <=> (pc = "returned" /\ config.stopBefore = StopBeforePrepareBuildActions)
    /\ retAt = "B" <=> (pc = "returned" /\ config.stopBefore = StopBeforeWriteNinja)

C3_Witness ==
    /\ retAt = "A"
    /\ args.EmptyNinjaFile /\ args.GlobFile # "" /\ args.Memprofile # ""
    /\ config.removeAbandoned

\* ---------------------------------------------------------------------- C4
\* C4 as stated: at a checkpoint return the result is the module list file
\* followed by the parsed files, and nothing else.
C4_OnlyParsedFiles ==
    retAt \in {"A", "B"} => ret = <<args.ModuleListFile>> \o engineDeps.parse

\* C4 amended: the result at Checkpoint A is the module list file, then the
\* parsed files, then the extra paths ResolveDependencies reported; at
\* Checkpoint B the extra paths PrepareBuildActions reported follow; nothing
\* else.
C4_CheckpointDeps ==
    /\ retAt = "A" =>
         ret = <<args.ModuleListFile>> \o engineDeps.parse \o engineDeps.resolve
    /\ retAt = "B" =>
         ret = <<args.ModuleListFile>> \o engineDeps.parse \o engineDeps.resolve
                 \o engineDeps.prepare

C4_Witness ==
    /\ retAt = "B"
    /\ engineDeps.parse = <<"b.bp">>
    /\ engineDeps.resolve = <<"a.bp">>
    /\ engineDeps.prepare = <<"b.bp">>
    /\ ret = <<"modules.list", "b.bp", "a.bp", "b.bp">>

\* ---------------------------------------------------------------------- C5
\* C5: a Main-stage run with the empty-file toggle that returns from the end
\* of the function leaves a zero-length file at the output path, which it
\* wrote as the placeholder; it never opened the path for generation, has no
\* file handle or buffer, and serialized into the no-op sink.
C5_MainEmptyLeavesPlaceholder ==
    (~args.GeneratingPrimaryBuilder /\ args.EmptyNinjaFile /\ retAt = "end") =>
        /\ outFile = [kind |-> "new", len |-> 0]
        /\ Count("ioutil.WriteFile out") = 1
        /\ ~Has("os.OpenFile out") /\ ~Has("buf.Flush") /\ ~Has("f.Close")
        /\ f = "nil" /\ buf = -1 /\ out = "Discard"

C5_Witness ==
    /\ ~args.GeneratingPrimaryBuilder /\ args.EmptyNinjaFile /\ retAt = "end"
    /\ Has("ctx.WriteBuildFile")
    /\ outFile.len = 0

\* ---------------------------------------------------------------------- C6
\* C6: a Primary-stage run with the empty-file toggle that returns from the
\* end of the function wrote the placeholder first, opened the same path
\* afterwards, and leaves the whole generated content there. In any run, once
\* the emitter has chosen its sink, it generates for real exactly when the
\* stage is not Main or the toggle is not set, and a run that returns from the
\* end holds the whole content exactly in that case.
C6_PrimaryEmptyGeneratesInFull ==
    /\ (args.GeneratingPrimaryBuilder /\ args.EmptyNinjaFile /\ retAt = "end") =>
         /\ Before("ioutil.WriteFile out", "os.OpenFile out")
         /\ ~Before("os.OpenFile out", "ioutil.WriteFile out")
         /\ outFile = [kind |-> "new", len |-> ContentLen]
    /\ out # "unset" =>
         (out = "buf" <=> (args.GeneratingPrimaryBuilder \/ ~args.EmptyNinjaFile))
    /\ retAt = "end" =>
         /\ Has("os.OpenFile out") <=> (args.GeneratingPrimaryBuilder \/ ~args.EmptyNinjaFile)
         /\ outFile.len = ContentLen <=> (args.GeneratingPrimaryBuilder \/ ~args.EmptyNinjaFile)

C6_Witness ==
    /\ args.GeneratingPrimaryBuilder /\ args.EmptyNinjaFile /\ retAt = "end"
    /\ Before("ioutil.WriteFile out", "os.OpenFile out")
    /\ outFile.len = ContentLen

\* ---------------------------------------------------------------------- C7
\* The operations on the output file during generation, and the reaper, in
\* the order they happened.
EmitSteps == {"os.OpenFile out", "ctx.WriteBuildFile", "buf.Flush", "f.Close"}
IsEmitOp(e) == e \in EmitSteps \/ e = "removeAbandonedFilesUnder"
EmitOps == SelectSeq(log, IsEmitOp)
FullOrder ==
    <<"os.OpenFile out", "ctx.WriteBuildFile", "buf.Flush", "f.Close",
      "removeAbandonedFilesUnder">>
StepMessage(e) ==
    CASE e = "os.OpenFile out" -> "error opening Ninja file"
      [] e = "ctx.WriteBuildFile" -> "error writing Ninja file contents"
      [] e = "buf.Flush" -> "error flushing Ninja file contents"
      [] e = "f.Close" -> "error closing Ninja file"

\* C7: under full generation the output file is opened, written, flushed and
\* closed in that order, each once, and the placeholder write is not among
\* them; the run dies with a step's own message exactly when that step is the
\* last one attempted, so nothing follows a failed step; and the reaper runs
\* only after the close, or after a skipped generation.
C7_EmitOrder ==
    LET ops == EmitOps
        n == Len(ops)
    IN  /\ out = "buf" => IsPrefix(ops, FullOrder)
        /\ out = "Discard" =>
             IsPrefix(ops, <<"ctx.WriteBuildFile", "removeAbandonedFilesUnder">>)
        /\ out = "unset" => ops \in {<<>>, <<"os.OpenFile out">>}
        /\ n > 0 => ~Before("os.OpenFile out", "ioutil.WriteFile out")
        /\ (retAt = "end" /\ out = "buf") =>
             /\ SubSeq(ops, 1, 4) = SubSeq(FullOrder, 1, 4)
             /\ buf = 0 /\ f = "closed" /\ outFile.len = ContentLen
        /\ pc = "exited" =>
             \A e \in EmitSteps :
                LastMessage = StepMessage(e) => n > 0 /\ ops[n] = e
        /\ (n > 0 /\ ops[n] = "removeAbandonedFilesUnder") =>
             \/ out = "Discard"
             \/ f = "closed" /\ buf = 0 /\ n = 5

C7_Witness ==
    /\ retAt = "end"
    /\ out = "buf"
    /\ EmitOps = FullOrder

\* ---------------------------------------------------------------------- C8
\* C8: a run that ended in os.Exit leaves at the output path what was there
\* before the run, or the zero-length placeholder the toggle asked for, or
\* the whole generated content: never a truncated or partly written file.
C8_NoPartialOutput ==
    pc = "exited" =>
        \/ outFile.kind = "pre"
        \/ outFile.len = 0 /\ args.EmptyNinjaFile
        \/ outFile.len = ContentLen

Segment(present, s) == IF present THEN s ELSE <<>>

\* C10: without an explicit invocation list the run configuration carries one
\* invocation: input the top-level file, output the main build file, and the
\* arguments [-t] -l <moduleListFile> -o <mainNinjaFile> [--empty-ninja-file]
\* [--delve_listen <addr>] [--delve_path <path>] <topFile>, each optional
\* segment there exactly when its option is set.
C10_SynthesizedInvocation ==
    (args.PrimaryBuilderInvocations.isNil /\ bootstrapConfig # NoConfig) =>
        /\ invocations = bootstrapConfig.primaryBuilderInvocations
        /\ ~invocations.isNil
        /\ Len(invocations.list) = 1
        /\ invocations.list[1].Inputs = <<args.TopFile>>
        /\ invocations.list[1].Outputs = <<"$buildDir/build.ninja">>
        /\ invocations.list[1].Args =
              Segment(args.RunGoTests, <<"-t">>)
              \o <<"-l", args.ModuleListFile, "-o", "$buildDir/build.ninja">>
              \o Segment(args.EmptyNinjaFile, <<"--empty-ninja-file">>)
              \o Segment(args.DelveListen # "", <<"--delve_listen", args.DelveListen>>)
              \o Segment(args.DelvePath # "", <<"--delve_path", args.DelvePath>>)
              \o <<args.TopFile>>

C10_Witness ==
    /\ args.PrimaryBuilderInvocations.isNil
    /\ pc = "register"
    /\ invocations.list[1].Args =
         << "-t", "-l", "modules.list", "-o", "$buildDir/build.ninja", "--empty-ninja-file",
            "--delve_listen", ":2345", "--delve_path", "/usr/bin/dlv", "Blueprints" >>


\* ---------------------------------------------------------------------------
\* C11: a non-empty error batch from ParseFileList, ResolveDependencies or
\* PrepareBuildActions ends the run at once: the process has exited with
\* status 1 whatever the categories of the errors, standard output holds
\* exactly the batch, one line per error in batch order, with "error:" before
\* a BlueprintError, ModuleError or PropertyError and "internal error:"
\* before anything else, and the phase that reported the batch is the last
\* thing the run did and was invoked once.
ErrorPhases == {"ctx.ParseFileList", "ctx.ResolveDependencies", "ctx.PrepareBuildActions"}

C11_ErrorBatchFatal ==
    errs # <<>> =>
        /\ pc = "exited"
        /\ exitCode = 1
        /\ Len(stdout) = Len(errs)
        /\ \A i \in 1..Len(errs) :
              /\ stdout[i].text = errs[i]
              /\ stdout[i].prefix = "error:" <=>
                    errs[i] \in {"BlueprintError", "ModuleError", "PropertyError"}
              /\ stdout[i].prefix = "internal error:" <=>
                    errs[i] \notin {"BlueprintError", "ModuleError", "PropertyError"}
        /\ log[Len(log)] \in ErrorPhases
        /\ Count(log[Len(log)]) = 1

C11_Witness ==
    /\ pc = "exited"
    /\ Len(errs) = 2
    /\ errs[1] \notin {"BlueprintError", "ModuleError", "PropertyError"}
    /\ errs[2] = "PropertyError"
    /\ log[Len(log)] = "ctx.PrepareBuildActions"

\* ---------------------------------------------------------------------------
\* C12: once the run configuration is assembled, it carries the caller's
\* invocation list exactly as supplied, same descriptors in the same order,
\* whenever the caller supplied one (a non-nil slice, a slice of length zero
\* included); when the caller supplied none it carries exactly one descriptor.
C12_ExplicitInvocationsVerbatim ==
    bootstrapConfig # NoConfig =>
        IF ~args.PrimaryBuilderInvocations.isNil
        THEN /\ bootstrapConfig.primaryBuilderInvocations.list
                  = args.PrimaryBuilderInvocations.list
             /\ ~bootstrapConfig.primaryBuilderInvocations.isNil
        ELSE Len(bootstrapConfig.primaryBuilderInvocations.list) = 1

\* The caller supplied a list of zero descriptors, and the assembled
\* configuration carries zero descriptors.
C12_Witness ==
    /\ pc = "register"
    /\ ~args.PrimaryBuilderInvocations.isNil
    /\ Len(args.PrimaryBuilderInvocations.list) = 0
    /\ Len(bootstrapConfig.primaryBuilderInvocations.list) = 0

\* ---------------------------------------------------------------------------
\* C13: in every step of every run, over every build directory, set of
\* declared outputs and policy: the directory tree changes only in the reaping
\* step, and only when the config exposes the abandoned-files policy; what
\* disappears is always a regular file beneath the build directory that is not
\* a declared output, lies beneath the 'under' directory (the build directory
\* when there is none) and beneath no excepted directory; a pass that
\* completes has removed every such file; a pass that fails ends the run with
\* "error removing abandoned files" and status 1.
C13_MayDelete(e) ==
    /\ ~e.dir
    /\ Len(e.path) > 1 /\ e.path[1] = "out"
    /\ e.path \notin ctx.targets
    /\ config.under # <<>> =>
          IsPrefix(config.under, e.path) /\ config.under # e.path
    /\ \A x \in config.except : ~IsPrefix(x, e.path)

C13_Step ==
    /\ tree' \subseteq tree
    /\ tree' # tree => pc = "reap" /\ config.removeAbandoned
    /\ Len(SelectSeq(log', LAMBDA x : x = "removeAbandonedFilesUnder"))
          = IF pc = "reap" /\ config.removeAbandoned THEN 1 ELSE Count("removeAbandonedFilesUnder")
    /\ \A e \in tree \ tree' : C13_MayDelete(e)
    /\ (pc = "reap" /\ config.removeAbandoned) =>
          \/ /\ pc' = "memprofile"
             /\ tree' = {e \in tree : ~C13_MayDelete(e)}
          \/ /\ pc' = "exited"
             /\ exitCode' = 1
             /\ stdout'[Len(stdout')].text = "error removing abandoned files"

C14_PhaseOrder ==
    << "ctx.ListModulePaths", "ctx.ParseFileList", "ctx.ResolveDependencies",
       "ctx.PrepareBuildActions", "ctx.WriteBuildFile" >>

C14_PhaseSet ==
    { "ctx.ListModulePaths", "ctx.ParseFileList", "ctx.ResolveDependencies",
      "ctx.PrepareBuildActions", "ctx.WriteBuildFile" }

C14_Phases == SelectSeq(log, LAMBDA e : e \in C14_PhaseSet)

C14_InOrder == IsPrefix(C14_Phases, C14_PhaseOrder)

C14_Step ==
    /\ Len(log') >= Len(log)
    /\ \A i \in (Len(log) + 1)..Len(log') :
          /\ log'[i] \in C14_PhaseSet =>
                /\ Len(log') = Len(log) + 1
                /\ errs = <<>>
                /\ stdout = <<>>
                /\ exitCode = -1
          /\ log'[i] \in RegistrationEvents =>
                /\ ~Has("ctx.ParseFileList")
                /\ \A j \in 1..(i - 1) : log'[j] # log'[i]
          /\ log'[i] = "ctx.ParseFileList" =>
                \A r \in RegistrationEvents : Has(r)

C14_PhasesSequential == []C14_InOrder /\ [][C14_Step]_vars

\* all five phases were invoked, and the run returned from the end
C14_Witness ==
    /\ pc = "returned"
    /\ retAt = "end"
    /\ C14_Phases = C14_PhaseOrder

\* ---------------------------------------------------------------------------
\* C15 as stated: whenever RunBlueprint has returned, one heap snapshot was
\* captured if a memory profile path is set, and none if it is not; the
\* returns at Checkpoint A and Checkpoint B included.
C15_SnapshotOnEveryReturn ==
    pc = "returned" =>
        res.heapProfiles = IF args.Memprofile # "" THEN 1 ELSE 0

\* C15: whenever RunBlueprint has returned from its last line, one heap
\* snapshot was captured, into a file since closed, if a memory profile path
\* is set, and none if it is not; whenever it has returned at Checkpoint A or
\* Checkpoint B, none was captured and the file was not created, path or no
\* path; no run captures two.
C15_SnapshotAtEnd ==
    /\ res.heapProfiles <= 1
    /\ res.heapProfiles = Count("pprof.WriteHeapProfile")
    /\ (pc = "returned" /\ retAt = "end") =>
          /\ res.heapProfiles = IF args.Memprofile # "" THEN 1 ELSE 0
          /\ res.memFile = IF args.Memprofile # "" THEN "closed" ELSE "none"
    /\ (pc = "returned" /\ retAt # "end") =>
          /\ res.heapProfiles = 0
          /\ res.memFile = "none"

\* a run with a memory profile path returned from the end with its snapshot
C15_Witness ==
    /\ pc = "returned"
    /\ retAt = "end"
    /\ args.Memprofile # ""
    /\ res.heapProfiles = 1

\* ---------------------------------------------------------------------------
\* The run has come past line 226, where the glob file is written.
PastGlobs ==
    \/ pc \in {"write", "flush", "close", "reap", "memprofile", "return"}
    \/ pc = "returned" /\ retAt = "end"
    \/ Has("ctx.WriteBuildFile")

\* The run has come past line 231, where the build file is serialized.
PastWrite ==
    \/ pc \in {"flush", "close", "reap", "memprofile", "return"}
    \/ pc = "returned" /\ retAt = "end"

\* C16: a run that has come past the glob step has written the glob file once
\* if a glob path is configured and not at all if none is, whatever the stage
\* and the empty-file option and whatever sink the main output got; no run
\* writes it without a glob path, and no run writes it before Checkpoint B.
C16_GlobFileIndependent ==
    /\ PastGlobs =>
          Count("WriteBuildGlobsNinjaFile") = IF args.GlobFile # "" THEN 1 ELSE 0
    /\ Has("WriteBuildGlobsNinjaFile") =>
          /\ args.GlobFile # ""
          /\ Before("ctx.PrepareBuildActions", "WriteBuildGlobsNinjaFile")
          /\ ~(pc = "returned" /\ retAt \in {"A", "B"})

\* the main output was not generated (sink ioutil.Discard), the glob file was
C16_Witness ==
    /\ pc = "returned"
    /\ stage = StageMain
    /\ args.EmptyNinjaFile
    /\ out = "Discard"
    /\ Has("WriteBuildGlobsNinjaFile")

\* ---------------------------------------------------------------------------
\* C17: no run calls WriteBuildFile twice, and a run that has come past the
\* serialization step has called it once, whatever the stage and the
\* empty-file option. When generation is skipped (stage Main, option set),
\* from the sink's choice on the sink is ioutil.Discard, there is no file
\* handle and no buffer, and nothing is opened, flushed or closed; the
\* serialization step calls the engine and either goes on to the flush or
\* exits with status 1 and "error writing Ninja file contents", whatever the
\* sink.
C17_Generated ==
    /\ Count("ctx.WriteBuildFile") <= 1
    /\ PastWrite => Count("ctx.WriteBuildFile") = 1
    /\ (stage = StageMain /\ args.EmptyNinjaFile /\ out # "unset") =>
          /\ out = "Discard"
          /\ f = "nil" /\ buf = -1
          /\ ~Has("os.OpenFile out") /\ ~Has("buf.Flush") /\ ~Has("f.Close")

C17_WriteBuildFileAlways ==
    /\ []C17_Generated
    /\ [][pc = "write" =>
             /\ log' = Append(log, "ctx.WriteBuildFile")
             /\ \/ pc' = "flush"
                \/ /\ pc' = "exited"
                   /\ exitCode' = 1
                   /\ stdout' = <<[prefix |-> "", text |-> "error writing Ninja file contents"]>>]_vars

\* generation was skipped and the serialization into ioutil.Discard failed
C17_Witness ==
    /\ pc = "exited"
    /\ out = "Discard"
    /\ log[Len(log)] = "ctx.WriteBuildFile"
    /\ LastMessage = "error writing Ninja file contents"

\* ---------------------------------------------------------------------------
\* C18: there is a buffer exactly when there is a file handle, and both only
\* after a successful open for full generation; whenever RunBlueprint has
\* returned, a file that was opened has been flushed once and then closed once,
\* the handle is closed, the buffer is empty and the whole content is in the
\* file; a file that was not opened has been neither flushed nor closed.
C18_HandleAndBuffer ==
    /\ buf # -1 <=> f # "nil"
    /\ f # "nil" =>
          /\ Count("os.OpenFile out") = 1
          /\ out = "buf"
          /\ stage # StageMain \/ ~args.EmptyNinjaFile
    /\ pc = "returned" =>
          IF Has("os.OpenFile out")
          THEN /\ f = "closed"
               /\ buf = 0
               /\ outFile.len = ContentLen
               /\ Count("buf.Flush") = 1
               /\ Count("f.Close") = 1
               /\ Before("buf.Flush", "f.Close")
          ELSE /\ f = "nil"
               /\ ~Has("buf.Flush") /\ ~Has("f.Close")

\* a run that opened the output file has returned
C18_Witness ==
    /\ pc = "returned"
    /\ Has("os.OpenFile out")
    /\ f = "closed"

====
